---- MODULE Spec2Model ----
(***************************************************************************)
(* Model of the crop disease diagnosis service (app/main.py,               *)
(* app/models.py): the two request handlers diagnose_crop and              *)
(* diagnose_by_url, run step by step for a set of requests in flight.      *)
(*                                                                         *)
(* Texts are sequences of tokens.  A token stands for a run of characters  *)
(* that the code never looks inside: the separator "/" and the three error *)
(* keywords are tokens of their own, so prefix tests, substring tests and  *)
(* str.split("/") are computed on the sequence as the code computes them   *)
(* on the characters.                                                      *)
(***************************************************************************)
EXTENDS Integers, Sequences, FiniteSets, TLC

VARIABLES pc, req, fetched, image_bytes, oracle, result, resp,
          nfetch, npredict, nresp, log

vars == <<pc, req, fetched, image_bytes, oracle, result, resp,
          nfetch, npredict, nresp, log>>

(* ------------------------------ bounds -------------------------------- *)

MaxCtLen == 3

MaxUrlTail == 3

MaxErrLen == 2

ConfWindow == 12

(* ------------------------- program constants -------------------------- *)

NDigits == 2

MaxPercent == 100

(* Confidence values are counted in units of 10^-(NDigits+1) percent, one  *)
(* decimal place finer than the rounding of round(confidence, 2).          *)
RECURSIVE Pow10(_)
Pow10(n) == IF n = 0 THEN 1 ELSE 10 * Pow10(n - 1)

Unit == Pow10(NDigits + 1)

Step2 == Unit \div Pow10(NDigits)

MaxConf == MaxPercent * Unit

(* ------------------------------- texts -------------------------------- *)

Slash == "/"

RECURSIVE SeqsUpTo(_, _)
SeqsUpTo(A, n) ==
  IF n = 0 THEN {<<>>}
  ELSE LET shorter == SeqsUpTo(A, n - 1)
       IN shorter \cup {Append(s, a) : s \in shorter, a \in A}

StartsWith(s, p) == Len(s) >= Len(p) /\ SubSeq(s, 1, Len(p)) = p

Contains(kw, s) == \E i \in 1..Len(s) : s[i] = kw

(* str.split("/"): the pieces between the separators, empty pieces kept.   *)
RECURSIVE SplitAcc(_, _, _)
SplitAcc(s, cur, acc) ==
  IF s = <<>> THEN Append(acc, cur)
  ELSE IF Head(s) = Slash THEN SplitAcc(Tail(s), <<>>, Append(acc, cur))
  ELSE SplitAcc(Tail(s), Append(cur, Head(s)), acc)

Split(s) == SplitAcc(s, <<>>, <<>>)

(* ------------------------------ requests ------------------------------ *)

Reqs == {"r1", "r2"}

MODEL_CONFIG == {"pumpkin", "k_melon"}

Crops == MODEL_CONFIG \cup {"durian"}

ImagePrefix == <<"image", Slash>>

(* The content types of an uploaded file part, the empty text included.    *)
ContentTypes == SeqsUpTo({"image", Slash, "text"}, MaxCtLen)

NoContentType == <<>>

Filenames == {<<"leaf.jpg">>, <<"scan.png">>}

ValidImages == {"png_a", "png_b"}

ImageBytes == ValidImages \cup {"junk"}

Unbound == "unbound"

UrlBase == <<"http:", Slash, Slash, "host", Slash>>

Urls == {UrlBase \o t : t \in SeqsUpTo({Slash, "a", "?", "#"}, MaxUrlTail)}

NoUrl == <<>>

(* What requests.get can do: raise a RequestException, or return a        *)
(* response with a final status code and a body.                           *)
NoFetch == [kind |-> "none", status_code |-> 0, content |-> Unbound]

StatusCodes == {200, 300, 404, 500}

FetchOutcomes ==
  {[kind |-> "network_error", status_code |-> 0, content |-> Unbound]} \cup
  {[kind |-> "response", status_code |-> s, content |-> b] :
     s \in StatusCodes, b \in ImageBytes}

(* ------------------------ prediction collaborator --------------------- *)

KwUnsupported == "unsupported_crop"

KwMissing == "model_file_missing"

KwLoadFailed == "failed_to_load"

ErrWords == {KwUnsupported, KwMissing, KwLoadFailed, "other"}

ErrorTexts == SeqsUpTo(ErrWords, MaxErrLen) \ {<<>>}

NoError == <<>>

Confidences == (0..ConfWindow) \cup ((MaxConf - ConfWindow)..MaxConf)

NoInfo == [name |-> "none", summary |-> "none", solution |-> "none"]

NoConfidence == -1

NoResult == [disease_info |-> NoInfo, confidence |-> NoConfidence, error |-> NoError]

(* What the collaborator's run comes to for a configured crop: an error    *)
(* text, or a classification with a confidence.                            *)
NoOracle == [kind |-> "none", text |-> NoError, confidence |-> NoConfidence]

Oracles ==
  {[kind |-> "error", text |-> t, confidence |-> NoConfidence] : t \in ErrorTexts} \cup
  {[kind |-> "ok", text |-> NoError, confidence |-> c] : c \in Confidences}

Classify(crop_name, bytes) ==
  [name |-> <<crop_name, bytes>>, summary |-> "summary", solution |-> "solution"]

predict_disease(crop_name, bytes, o) ==
  IF crop_name \notin MODEL_CONFIG
    THEN [disease_info |-> NoInfo, confidence |-> NoConfidence,
          error |-> <<crop_name, KwUnsupported>>]
  ELSE IF o.kind = "error"
    THEN [disease_info |-> NoInfo, confidence |-> NoConfidence, error |-> o.text]
  ELSE [disease_info |-> Classify(crop_name, bytes), confidence |-> o.confidence,
        error |-> NoError]

(* ------------------------------ handlers ------------------------------ *)

(* raise HTTPException(status_code, detail): the framework's handler       *)
(* answers with the status and the JSON body {"detail": detail}.           *)
HTTPException(status_code, detail) ==
  [status |-> status_code, body |-> [detail |-> detail]]

DiagnosisResult(filename, confidence, disease_info) ==
  [status |-> 200,
   body |-> [filename |-> filename, confidence |-> confidence,
             disease_info |-> disease_info]]

NoResponse == [status |-> 0, body |-> [pending |-> TRUE]]

(* A test for "image" anywhere in the content type. *)
ContentTypeOkLoose(ct) == Contains("image", ct)

(* file.content_type.startswith("image/") *)
ContentTypeOk(ct) == StartsWith(ct, ImagePrefix)

(* response.raise_for_status(): raises for a 4xx or 5xx status only.       *)
RaisesForStatus(status_code) == 400 <= status_code /\ status_code < 600

FetchRaises(o) ==
  o.kind = "network_error" \/ (o.kind = "response" /\ RaisesForStatus(o.status_code))

(* No verification of the bytes. *)
AnyBytes(bytes) == TRUE

(* Image.open(BytesIO(image_bytes)); img.verify() *)
ValidImage(bytes) == bytes \in ValidImages

(* A failed download is tried again. *)
RetryAfterFetch(raised) == IF raised THEN "fetch" ELSE "verify"

(* The raise in the except clause ends the handler: there is no loop.      *)
NextPcAfterFetch(raised) == IF raised THEN "done" ELSE "verify"

(* The bytes are kept in one buffer of the module, which the other         *)
(* request has overwritten.                                                *)
PredictArgShared(r) ==
  LET others == {q \in Reqs \ {r} : image_bytes[q] # Unbound}
  IN  IF others = {} THEN image_bytes[r] ELSE image_bytes[CHOOSE q \in others : TRUE]

(* The argument the handler passes to predict_disease: its own local.      *)
PredictArg(r) == image_bytes[r]

(* The mapping without its first branch. *)
UploadErrorStatusNoUnsupported(error) ==
  IF Contains(KwMissing, error) \/ Contains(KwLoadFailed, error) THEN 404
  ELSE 500

UploadErrorStatus(error) ==
  IF Contains(KwUnsupported, error) THEN 404
  ELSE IF Contains(KwMissing, error) \/ Contains(KwLoadFailed, error) THEN 404
  ELSE 500

(* The mapping without the failed-to-load keyword. *)
UrlErrorStatusNoLoadFailed(error) ==
  IF Contains(KwUnsupported, error) THEN 404
  ELSE IF Contains(KwMissing, error) THEN 404
  ELSE 500

UrlErrorStatus(error) ==
  IF Contains(KwUnsupported, error) THEN 404
  ELSE IF Contains(KwMissing, error) \/ Contains(KwLoadFailed, error) THEN 404
  ELSE 500

(* The confidence passed on as it is. *)
NoRound(c) == {c}

(* round(confidence, 2) on a float: the nearest value with NDigits         *)
(* decimals.  A decimal tie is decided by the binary value of the float,   *)
(* which lies on either side, so both neighbours are possible results.     *)
Round2(c) ==
  LET lo == (c \div Step2) * Step2
      rem == c - lo
  IN  IF 2 * rem < Step2 THEN {lo}
      ELSE IF 2 * rem > Step2 THEN {lo + Step2}
      ELSE {lo, lo + Step2}

(* request.image_url.split("/")[-1] *)
UrlFilename(image_url) == LET parts == Split(image_url) IN parts[Len(parts)]

(* ------------------------------- state -------------------------------- *)

NoRequest ==
  [endpoint |-> "none", crop_name |-> "none", content_type |-> NoContentType,
   filename |-> <<>>, file_bytes |-> Unbound, image_url |-> NoUrl]

Init ==
  /\ pc = [r \in Reqs |-> "idle"]
  /\ req = [r \in Reqs |-> NoRequest]
  /\ fetched = [r \in Reqs |-> NoFetch]
  /\ image_bytes = [r \in Reqs |-> Unbound]
  /\ oracle = [r \in Reqs |-> NoOracle]
  /\ result = [r \in Reqs |-> NoResult]
  /\ resp = [r \in Reqs |-> NoResponse]
  /\ nfetch = [r \in Reqs |-> 0]
  /\ npredict = [r \in Reqs |-> 0]
  /\ nresp = [r \in Reqs |-> 0]
  /\ log = [r \in Reqs |-> <<>>]

(* The handler of r answers with `response` and moves to `next`.           *)
Answer(r, response, next, stages) ==
  /\ resp' = [resp EXCEPT ![r] = response]
  /\ nresp' = [nresp EXCEPT ![r] = @ + 1]
  /\ pc' = [pc EXCEPT ![r] = next]
  /\ log' = [log EXCEPT ![r] = @ \o stages \o <<"respond">>]

Advance(r, next, stages) ==
  /\ pc' = [pc EXCEPT ![r] = next]
  /\ log' = [log EXCEPT ![r] = @ \o stages]
  /\ UNCHANGED <<resp, nresp>>

(* POST /diagnose/{crop_name} arrives. *)
ReceiveUpload(r, D) ==
  /\ pc[r] = "idle"
  /\ \E c \in D.crops, ct \in D.ctypes, fn \in D.filenames, fb \in D.files :
       req' = [req EXCEPT ![r] =
                 [endpoint |-> "upload", crop_name |-> c, content_type |-> ct,
                  filename |-> fn, file_bytes |-> fb, image_url |-> NoUrl]]
  /\ pc' = [pc EXCEPT ![r] = "validate"]
  /\ UNCHANGED <<fetched, image_bytes, oracle, result, resp, nfetch, npredict, nresp, log>>

(* POST /diagnose-by-url/{crop_name} arrives. *)
ReceiveUrl(r, D) ==
  /\ pc[r] = "idle"
  /\ \E c \in D.crops, u \in D.urls :
       req' = [req EXCEPT ![r] =
                 [endpoint |-> "url", crop_name |-> c, content_type |-> NoContentType,
                  filename |-> <<>>, file_bytes |-> Unbound, image_url |-> u]]
  /\ pc' = [pc EXCEPT ![r] = "fetch"]
  /\ UNCHANGED <<fetched, image_bytes, oracle, result, resp, nfetch, npredict, nresp, log>>

(* diagnose_crop: the content type test. *)
Validate(r) ==
  /\ pc[r] = "validate"
  /\ IF ~ContentTypeOk(req[r].content_type)
       THEN Answer(r, HTTPException(400, <<"image_only">>), "done", <<"validate">>)
       ELSE Advance(r, "read", <<"validate">>)
  /\ UNCHANGED <<req, fetched, image_bytes, oracle, result, nfetch, npredict>>

(* diagnose_crop: image_bytes = await file.read() *)
Read(r) ==
  /\ pc[r] = "read"
  /\ image_bytes' = [image_bytes EXCEPT ![r] = req[r].file_bytes]
  /\ Advance(r, "predict", <<"read">>)
  /\ UNCHANGED <<req, fetched, oracle, result, nfetch, npredict>>

(* diagnose_by_url: requests.get, raise_for_status, response.content *)
Fetch(r, D) ==
  /\ pc[r] = "fetch"
  /\ \E o \in D.fetches :
       /\ fetched' = [fetched EXCEPT ![r] = o]
       /\ nfetch' = [nfetch EXCEPT ![r] = @ + 1]
       /\ IF FetchRaises(o)
            THEN /\ Answer(r, HTTPException(400, <<"download_failed">>),
                           NextPcAfterFetch(TRUE), <<"fetch">>)
                 /\ UNCHANGED image_bytes
            ELSE /\ image_bytes' = [image_bytes EXCEPT ![r] = o.content]
                 /\ Advance(r, NextPcAfterFetch(FALSE), <<"fetch">>)
  /\ UNCHANGED <<req, oracle, result, npredict>>

(* diagnose_by_url: the image verification. *)
Verify(r) ==
  /\ pc[r] = "verify"
  /\ IF ~ValidImage(image_bytes[r])
       THEN Answer(r, HTTPException(400, <<"invalid_image">>), "done", <<"verify">>)
       ELSE Advance(r, "predict", <<"verify">>)
  /\ UNCHANGED <<req, fetched, image_bytes, oracle, result, nfetch, npredict>>

(* Both handlers: disease_info, confidence, error = predict_disease(...) *)
Predict(r, D) ==
  /\ pc[r] = "predict"
  /\ \E o \in D.oracles :
       /\ oracle' = [oracle EXCEPT ![r] = o]
       /\ result' = [result EXCEPT ![r] =
                       predict_disease(req[r].crop_name, PredictArg(r), o)]
  /\ npredict' = [npredict EXCEPT ![r] = @ + 1]
  /\ Advance(r, "map", <<"predict">>)
  /\ UNCHANGED <<req, fetched, image_bytes, nfetch>>

(* diagnose_crop: the error mapping and the result. *)
RespondUpload(r) ==
  /\ pc[r] = "map"
  /\ req[r].endpoint = "upload"
  /\ IF result[r].error # NoError
       THEN Answer(r, HTTPException(UploadErrorStatus(result[r].error), result[r].error),
                   "done", <<>>)
       ELSE \E c \in Round2(result[r].confidence) :
              Answer(r, DiagnosisResult(req[r].filename, c, result[r].disease_info),
                     "done", <<>>)
  /\ UNCHANGED <<req, fetched, image_bytes, oracle, result, nfetch, npredict>>

(* diagnose_by_url: the error mapping and the result. *)
RespondUrl(r) ==
  /\ pc[r] = "map"
  /\ req[r].endpoint = "url"
  /\ IF result[r].error # NoError
       THEN Answer(r, HTTPException(UrlErrorStatus(result[r].error), result[r].error),
                   "done", <<>>)
       ELSE \E c \in Round2(result[r].confidence) :
              Answer(r, DiagnosisResult(UrlFilename(req[r].image_url), c,
                                        result[r].disease_info),
                     "done", <<>>)
  /\ UNCHANGED <<req, fetched, image_bytes, oracle, result, nfetch, npredict>>

(* --------------------------- specifications --------------------------- *)

Full ==
  [crops |-> Crops, ctypes |-> ContentTypes, filenames |-> Filenames,
   files |-> ImageBytes, urls |-> Urls, fetches |-> FetchOutcomes,
   oracles |-> Oracles]

Small ==
  [crops |-> {"pumpkin", "durian"},
   ctypes |-> {ImagePrefix, <<"text">>},
   filenames |-> {<<"leaf.jpg">>},
   files |-> ImageBytes,
   urls |-> {UrlBase \o <<"a">>},
   fetches |-> {o \in FetchOutcomes : o.status_code \in {0, 200}},
   oracles |-> {o \in Oracles : o.text \in {NoError, <<"other">>}
                               /\ o.confidence \in {NoConfidence, 5}}]

Step(r, D) ==
  \/ ReceiveUpload(r, D)
  \/ ReceiveUrl(r, D)
  \/ Validate(r)
  \/ Read(r)
  \/ Fetch(r, D)
  \/ Verify(r)
  \/ Predict(r, D)
  \/ RespondUpload(r)
  \/ RespondUrl(r)

(* One request in flight, every input. *)
Next == Step("r1", Full)

Spec == Init /\ [][Next]_vars

(* Every request in flight at once, fewer inputs. *)
NextConc == \E r \in Reqs : Step(r, Small)

SpecConc == Init /\ [][NextConc]_vars

(* ------------------------------- claims ------------------------------- *)

Done(r) == pc[r] = "done"

IsImageType(ct) == Len(ct) >= 2 /\ ct[1] = "image" /\ ct[2] = "/"

FetchFailed(f) ==
  f.kind = "network_error" \/ (f.kind = "response" /\ f.status_code \notin 200..299)

FetchRaised(f) ==
  f.kind = "network_error" \/ (f.kind = "response" /\ f.status_code \in 400..599)

(* The request passed the handler's input checks. *)
InputOk(r) ==
  \/ req[r].endpoint = "upload" /\ IsImageType(req[r].content_type)
  \/ /\ req[r].endpoint = "url"
     /\ fetched[r].kind = "response"
     /\ fetched[r].status_code \in 200..299
     /\ fetched[r].content \in {"png_a", "png_b"}

C2_AbsentCropIs404 ==
  \A r \in Reqs :
    (Done(r) /\ req[r].endpoint \in {"upload", "url"}
       /\ req[r].crop_name \notin MODEL_CONFIG)
      => resp[r].status = 404

(* C2 amended: every finished request of either endpoint whose crop name   *)
(* is absent from the model configuration and whose input passed the       *)
(* handler's checks (upload: the content type starts with "image/"; URL:   *)
(* the fetch returned a 2xx response and the fetched bytes verify as an    *)
(* image) is answered 404.                                                 *)
C2_AbsentCropValidInputIs404 ==
  \A r \in Reqs :
    (Done(r) /\ req[r].crop_name \notin MODEL_CONFIG /\ InputOk(r))
      => resp[r].status = 404

C2_Witness ==
  \E r \in Reqs :
    /\ Done(r) /\ req[r].endpoint = "upload"
    /\ req[r].crop_name \notin MODEL_CONFIG
    /\ InputOk(r) /\ npredict[r] = 1
    /\ resp[r].status = 404

(* C3: every finished URL request whose fetch raised a network error or    *)
(* returned a status outside 200..299 is answered 400, whatever the crop.  *)
C3_FailedFetchIs400 ==
  \A r \in Reqs :
    (Done(r) /\ req[r].endpoint = "url" /\ FetchFailed(fetched[r]))
      => resp[r].status = 400

(* The status the claim gives to an error value. *)
ClaimedStatus(error) ==
  IF error = <<>> THEN 200
  ELSE IF \E i \in 1..Len(error) :
            error[i] \in {"unsupported_crop", "model_file_missing", "failed_to_load"}
    THEN 404
  ELSE 500

(* C4: on both endpoints, a finished request that reached the prediction   *)
(* is answered with the status that the error value alone decides: 200    *)
(* without an error, 404 when the text holds one of the three keywords,    *)
(* 500 for any other text.                                                 *)
C4_StatusIsFunctionOfError ==
  \A r \in Reqs :
    (Done(r) /\ npredict[r] > 0) => resp[r].status = ClaimedStatus(result[r].error)

C4_Witness ==
  \E r \in Reqs :
    /\ Done(r) /\ req[r].endpoint = "url" /\ npredict[r] > 0
    /\ result[r].error = <<"other", "failed_to_load">>
    /\ resp[r].status = 404

(* C5: every 200 response carries a confidence between 0 and 100 percent   *)
(* with at most NDigits decimal places.                                    *)
C5_ConfidenceRangeAndDecimals ==
  \A r \in Reqs :
    (Done(r) /\ resp[r].status = 200)
      => /\ resp[r].body.confidence \in 0..(MaxPercent * Unit)
         /\ resp[r].body.confidence % (Unit \div Pow10(NDigits)) = 0

C5_Witness ==
  \E r \in Reqs :
    /\ Done(r) /\ resp[r].status = 200
    /\ result[r].confidence = MaxPercent * Unit - 4
    /\ resp[r].body.confidence = MaxPercent * Unit

(* The final path segment of a URL (RFC 3986): the fragment and the query  *)
(* are no part of the path, and the path starts after the authority.       *)
UpTo(s, ch) ==
  IF \E i \in 1..Len(s) : s[i] = ch
    THEN SubSeq(s, 1, (CHOOSE i \in 1..Len(s) :
                         s[i] = ch /\ \A j \in 1..(i - 1) : s[j] # ch) - 1)
    ELSE s

FinalPathSegment(url) ==
  LET hier == UpTo(UpTo(url, "#"), "?")
      rest == SubSeq(hier, 4, Len(hier))
      path == IF \E i \in 1..Len(rest) : rest[i] = "/"
                THEN SubSeq(rest, CHOOSE i \in 1..Len(rest) :
                                    rest[i] = "/" /\ \A j \in 1..(i - 1) : rest[j] # "/",
                            Len(rest))
                ELSE <<>>
      last == IF path = <<>> THEN 0
              ELSE CHOOSE i \in 1..Len(path) :
                     path[i] = "/" /\ \A j \in (i + 1)..Len(path) : path[j] # "/"
  IN  IF path = <<>> THEN <<>> ELSE SubSeq(path, last + 1, Len(path))

(* C6: every 200 response of the URL endpoint carries as filename the      *)
(* final path segment of the given image_url.                              *)
C6_FilenameIsFinalPathSegment ==
  \A r \in Reqs :
    (Done(r) /\ req[r].endpoint = "url" /\ resp[r].status = 200)
      => resp[r].body.filename = FinalPathSegment(req[r].image_url)

(* C7: every 400, 404 or 500 response has a body whose message is in a     *)
(* field named error.                                                      *)
C7_FailureBodyHasErrorField ==
  \A r \in Reqs :
    (Done(r) /\ resp[r].status \in {400, 404, 500})
      => "error" \in DOMAIN resp[r].body

Stages(endpoint) ==
  IF endpoint = "upload" THEN <<"validate", "read", "predict">>
  ELSE <<"fetch", "verify", "predict">>

C9_NothingRetried ==
  \A r \in Reqs :
    /\ nfetch[r] <= 1
    /\ req[r].endpoint = "upload" => nfetch[r] = 0
    /\ npredict[r] <= 1
    /\ nresp[r] <= 1
    /\ Done(r) => nresp[r] = 1
    /\ nresp[r] = 1 => Done(r)

C9_Witness ==
  \E r \in Reqs :
    /\ Done(r) /\ req[r].endpoint = "url"
    /\ fetched[r].kind = "network_error"
    /\ nfetch[r] = 1 /\ npredict[r] = 0 /\ nresp[r] = 1

(* The responses a request can get when it runs alone: its handler run     *)
(* from start to end on the request q, the fetch outcome f and the         *)
(* collaborator's outcome o.                                               *)
FromPrediction(res, filename, status) ==
  IF res.error # <<>>
    THEN {[status |-> status, body |-> [detail |-> res.error]]}
    ELSE {[status |-> 200,
           body |-> [filename |-> filename, confidence |-> c,
                     disease_info |-> res.disease_info]] : c \in Round2(res.confidence)}

Alone(q, f, o) ==
  IF q.endpoint = "upload"
    THEN IF ~ContentTypeOk(q.content_type)
           THEN {HTTPException(400, <<"image_only">>)}
         ELSE LET res == predict_disease(q.crop_name, q.file_bytes, o)
              IN  FromPrediction(res, q.filename, UploadErrorStatus(res.error))
    ELSE IF FetchRaises(f) THEN {HTTPException(400, <<"download_failed">>)}
         ELSE IF ~ValidImage(f.content) THEN {HTTPException(400, <<"invalid_image">>)}
         ELSE LET res == predict_disease(q.crop_name, f.content, o)
              IN  FromPrediction(res, UrlFilename(q.image_url), UrlErrorStatus(res.error))

(* C10: under every interleaving of the requests in flight, the response   *)
(* to a finished request is one it gets when it runs alone with the same   *)
(* inputs, fetch outcome and prediction outcome.                           *)
C10_ResponseAsAlone ==
  \A r \in Reqs : Done(r) => resp[r] \in Alone(req[r], fetched[r], oracle[r])

C10_Witness ==
  /\ Done("r1") /\ resp["r1"].status = 200
  /\ pc["r2"] = "map" /\ result["r2"].error = <<>>
  /\ req["r1"].crop_name = req["r2"].crop_name
  /\ image_bytes["r1"] # image_bytes["r2"]
  /\ resp["r1"].body.disease_info # result["r2"].disease_info

====
